---- MODULE Spec2Model ----
(***************************************************************************)
(* Model of the waybar Autohide module (src/src/modules/autohide.cpp):     *)
(* the four-state visibility controller driven by the mouse-tracking       *)
(* thread (checkMousePosition), the Hyprland event callback (onEvent) and  *)
(* the main-thread update() that applies the bar mode.                     *)
(*                                                                         *)
(* Time is the steady clock in milliseconds.  One call of                  *)
(* checkMousePosition reads the clock several times; the model gives all   *)
(* reads of one call the same millisecond (the call is short with respect  *)
(* to the clock's resolution after duration_cast<milliseconds>), and lets  *)
(* the clock advance while the thread sleeps.                              *)
(***************************************************************************)
EXTENDS Integers, Sequences, FiniteSets, TLC

VARIABLES
  config_,                  \* the JSON configuration handed to the constructor
  threshold_hidden_y_,      \* uint32_t members set by the constructor
  threshold_visible_y_,
  delay_show_,
  delay_hide_,
  check_interval_,
  waybar_state_,            \* std::atomic<WaybarState>
  timer_start_,             \* steady_clock::time_point, in ms
  last_trigger_was_show_,   \* the show-debounce flag
  clock,                    \* steady_clock::now(), in ms
  pc,                       \* position of the mouse-tracking thread
  loc,                      \* locals of the mouse-tracking thread inside checkMousePosition
  dispatched,               \* dp.emit() notifications not yet delivered to update()
  barMode,                  \* the mode last given to bar_->setMode
  setModeCalls,             \* the setMode calls made by the latest step
  last,                     \* history: the latest step and the state it started from
  enteredAt,                \* history: clock value when the current pending state was entered
  hrun,                     \* history: top-zone samples fed in a row since Hidden with the debounce clear
  scen,                     \* history: progress through the reference scenario
  hide_cancelled,           \* history: a poll cycle took PendingHidden to PendingVisible
                            \* and no bottom-zone sample has been taken since
  trace,                    \* history: what the latest polls sampled, from a poll that
                            \* started in Hidden with the debounce flag clear
  ref,                      \* reference: the state machine run with a trigger counter
  cached_monitor_,          \* MonitorCache member
  mouse_thread_running_,    \* std::atomic<bool>
  mouse_thread_exit_,       \* std::atomic<bool>
  mouse_threads,            \* threads started for mouse_thread_ and not yet joined
  ipc_registered,           \* TRUE while the module is registered with the Hyprland IPC
  mainpc,                   \* position of the main thread in the module's lifecycle code
  calls,                    \* history: start/stop calls made by the main thread so far
  polls_after_exit,         \* history: poll cycles begun since mouse_thread_exit_ was set
  cursor_reply,             \* the reply of the "cursorpos" request being parsed
  cursor_result,            \* what getMousePosition made of cursor_reply
  prm_,                     \* CavaBackend: the cava parameters framerate and sleep_timer
  suspendFlag,              \* CavaBackend: audio_data_.suspendFlag
  silence_,                 \* CavaBackend
  silence_prev_,            \* CavaBackend
  sleep_counter_,           \* CavaBackend
  frame_time_milsec_,       \* CavaBackend: the delay of the update thread, in ms
  suspend_silence_delay_,   \* CavaBackend: in seconds
  thread_pc,                \* where the update thread is inside doUpdate()
  thread_loc,               \* the branch doUpdate() took and the delay test it made
  cava_last                 \* history: the latest backend call and what it emitted

lifeVars == << mouse_thread_running_, mouse_thread_exit_, mouse_threads, ipc_registered,
               mainpc, calls, polls_after_exit >>

parseVars == << cursor_reply, cursor_result >>

cavaVars == << prm_, suspendFlag, silence_, silence_prev_, sleep_counter_, frame_time_milsec_,
               suspend_silence_delay_, thread_pc, thread_loc, cava_last >>

vars == << config_, threshold_hidden_y_, threshold_visible_y_, delay_show_, delay_hide_,
           check_interval_, waybar_state_, timer_start_, last_trigger_was_show_, clock,
           pc, loc, dispatched, barMode, setModeCalls, last, enteredAt, hrun, scen,
           hide_cancelled, trace, ref, cached_monitor_, lifeVars, parseVars, cavaVars >>

cfgVars == << config_, threshold_hidden_y_, threshold_visible_y_, delay_show_, delay_hide_,
              check_interval_ >>

----------------------------------------------------------------------------
(* enum class WaybarState *)
VISIBLE == "VISIBLE"
HIDDEN == "HIDDEN"
PENDING_VISIBLE == "PENDING_VISIBLE"
PENDING_HIDDEN == "PENDING_HIDDEN"
WaybarState == {VISIBLE, HIDDEN, PENDING_VISIBLE, PENDING_HIDDEN}

(* Bar modes given to setMode *)
MODE_DEFAULT == "default"
MODE_INVISIBLE == "invisible"

----------------------------------------------------------------------------
(* Bounds of the model *)
MaxCycles == 3         \* polls the clock allows beyond one hide and one show countdown
MaxPending == 2        \* dispatcher notifications in flight
MaxCalls == 3          \* calls of startMouseTracking and stopMouseTracking
MaxReplyLen == 4       \* characters of a "cursorpos" reply given to the parser alone
MaxEventLen == 3       \* tokens of a raw event string given to onEvent
TraceLen == 3          \* polls recorded by the history variable trace
RunCap == 4            \* the history counter hrun saturates here

----------------------------------------------------------------------------
(* Configuration: Json values; a key that is absent or not an unsigned     *)
(* integer is represented by a negative number.                            *)
JsonAbsent == 0 - 1

IsUInt(v) == v >= 0

DefaultThresholdHiddenY == 1
DefaultThresholdVisibleY == 50
DefaultDelayShow == 0
DefaultDelayHide == 3000
DefaultCheckInterval == 100
MinDelay == 10

Cfg(th, tv, ds, dh, ci, n) ==
  [ threshold_hidden_y |-> th, threshold_visible_y |-> tv, delay_show |-> ds,
    delay_hide |-> dh, check_interval |-> ci, consecutive_checks_before_visible |-> n ]

(* The configurations the model starts from. *)
Configs ==
  { Cfg(JsonAbsent, JsonAbsent, JsonAbsent, JsonAbsent, JsonAbsent, JsonAbsent),
    Cfg(1, 50, 0, 0, 5, 1),
    Cfg(1, 50, 20, 15, 5, 3),
    Cfg(0, 1, 5, 25, 5, 2) }

UIntOr(v, dflt) == IF IsUInt(v) THEN v ELSE dflt

----------------------------------------------------------------------------
(* The environment of one poll cycle. *)

(* bar_->output->monitor->property_geometry(): the bar's monitor. *)
monitor_geometry == [x |-> 20, y |-> 10, width |-> 100, height |-> 70]

(* Strings are sequences of one-character strings. *)
DigitChars == << "0", "1", "2", "3", "4", "5", "6", "7", "8", "9" >>

IsDigit(c) == \E i \in 1..10 : DigitChars[i] = c

DigitValue(c) == (CHOOSE i \in 1..10 : DigitChars[i] = c) - 1

(* std::isspace *)
IsSpace(c) == c \in {" ", "\t", "\n"}

(* The decimal text of an int, as Hyprland prints a coordinate. *)
RECURSIVE NatText(_)
NatText(n) == IF n < 10 THEN << DigitChars[n + 1] >>
              ELSE NatText(n \div 10) \o << DigitChars[(n % 10) + 1] >>

IntText(n) == IF n < 0 THEN << "-" >> \o NatText(0 - n) ELSE NatText(n)

(* Replies of the "cursorpos" request are strings; Hyprland answers        *)
(* "x,y" with global coordinates, and the empty string stands for a        *)
(* request that failed.  A sample is the reply, whether bar_, its output   *)
(* and its monitor exist, and a label saying what the sample is:           *)
(* "query_failed", "no_monitor", "off_monitor" (global cursor outside      *)
(* [x, x+width) x [y, y+height)) or "on_monitor".                          *)
RelYs == {0, 1, 2, 50, 51, 60}

Sample(x, y, mon, kind) ==
  [reply |-> IntText(x) \o << "," >> \o IntText(y), monitor |-> mon, kind |-> kind]

Samples ==
  LET g == monitor_geometry IN
    { [reply |-> << >>, monitor |-> TRUE, kind |-> "query_failed"] }
    \cup { Sample(g.x + 30, g.y + r, TRUE, "on_monitor") : r \in RelYs }
    \cup { Sample(g.x + 30, g.y + r, FALSE, "no_monitor") : r \in {0, 60} }
    \cup { Sample(g.x + 30, y, TRUE, "off_monitor") : y \in {g.y - 1, g.y + g.height} }
    \cup { Sample(x, g.y + 60, TRUE, "off_monitor") : x \in {g.x - 1, g.x + g.width} }
    \cup { Sample(g.x, g.y + g.height - 1, TRUE, "on_monitor"),
           Sample(g.x + g.width - 1, g.y, TRUE, "on_monitor") }

(* int is 32 bits wide. *)
IntMax == 2147483647

(* The index of the first character of str at or after i that is not       *)
(* white space; Len(str) + 1 when there is none.                           *)
RECURSIVE SkipSpace(_, _)
SkipSpace(str, i) ==
  IF i <= Len(str) /\ IsSpace(str[i]) THEN SkipSpace(str, i + 1) ELSE i

(* The value of the digits of str from index i on, up to the first         *)
(* character that is no digit, continuing from the value acc; -1 once the  *)
(* value has left the range of int.  (The magnitude 2^31, in range only    *)
(* behind a minus sign, counts as out of range: no reply of the model is   *)
(* that long.)                                                             *)
RECURSIVE DigitRun(_, _, _)
DigitRun(str, i, acc) ==
  IF i <= Len(str) /\ IsDigit(str[i])
    THEN IF acc < 0 \/ acc > (IntMax - DigitValue(str[i])) \div 10
           THEN DigitRun(str, i + 1, 0 - 1)
           ELSE DigitRun(str, i + 1, acc * 10 + DigitValue(str[i]))
    ELSE acc

(* Variant: the whole string must be consumed by the conversion. *)
stoi_WholeString(str) ==
  LET i0 == SkipSpace(str, 1)
      signed == i0 <= Len(str) /\ str[i0] \in {"-", "+"}
      i1 == IF signed THEN i0 + 1 ELSE i0
      magnitude == DigitRun(str, i1, 0)
      value == IF signed /\ str[i0] = "-" THEN 0 - magnitude ELSE magnitude
  IN  IF i0 # 1 \/ i1 > Len(str) \/ \E j \in i1..Len(str) : ~IsDigit(str[j])
        THEN [ok |-> FALSE, value |-> 0]
      ELSE IF magnitude < 0
        THEN [ok |-> FALSE, value |-> 0]
      ELSE [ok |-> TRUE, value |-> value]

(* std::stoi(str): leading white space is skipped, an optional sign and    *)
(* the longest run of digits are converted, whatever follows is ignored;   *)
(* ok is FALSE where it throws (std::invalid_argument when there is no     *)
(* digit, std::out_of_range when the value does not fit an int).           *)
stoi(str) ==
  LET i0 == SkipSpace(str, 1)
      signed == i0 <= Len(str) /\ str[i0] \in {"-", "+"}
      i1 == IF signed THEN i0 + 1 ELSE i0
      magnitude == DigitRun(str, i1, 0)
      value == IF signed /\ str[i0] = "-" THEN 0 - magnitude ELSE magnitude
  IN  IF i1 > Len(str) \/ ~IsDigit(str[i1])
        THEN [ok |-> FALSE, value |-> 0]
      ELSE IF magnitude < 0
        THEN [ok |-> FALSE, value |-> 0]
      ELSE [ok |-> TRUE, value |-> value]

(* reply.find(','): the first index of ch in str, 0 for npos. *)
Find(str, ch) ==
  IF \E i \in 1..Len(str) : str[i] = ch
    THEN CHOOSE i \in 1..Len(str) : str[i] = ch /\ \A j \in 1..(i - 1) : str[j] # ch
    ELSE 0

(* Autohide::getMousePosition, given the reply of the "cursorpos" request. *)
getMousePosition(reply) ==
  IF Len(reply) = 0 THEN [ok |-> FALSE, x |-> 0, y |-> 0]
  ELSE LET comma_pos == Find(reply, ",") IN
    IF comma_pos = 0 THEN [ok |-> FALSE, x |-> 0, y |-> 0]
    ELSE LET x == stoi(SubSeq(reply, 1, comma_pos - 1))
             y == stoi(SubSeq(reply, comma_pos + 1, Len(reply)))
         IN  IF x.ok /\ y.ok THEN [ok |-> TRUE, x |-> x.value, y |-> y.value]
             ELSE [ok |-> FALSE, x |-> 0, y |-> 0]

(* What getMousePosition makes of the reply of each sample. *)
MousePositions == [ r \in { s.reply : s \in Samples } |-> getMousePosition(r) ]

(* Variant: the right and bottom edges are taken as inside the monitor. *)
NotOnMonitor_InclusiveEdge(mouse_x, mouse_y, g) ==
  \/ mouse_x < g.x
  \/ mouse_x > g.x + g.width
  \/ mouse_y < g.y
  \/ mouse_y > g.y + g.height

(* The monitor test of checkMousePosition: TRUE when the cursor is NOT on  *)
(* the monitor.                                                            *)
NotOnMonitor(mouse_x, mouse_y, g) ==
  \/ mouse_x < g.x
  \/ mouse_x >= g.x + g.width
  \/ mouse_y < g.y
  \/ mouse_y >= g.y + g.height

(* TRUE when checkMousePosition gets past its three early returns. *)
Applicable(s) ==
  LET m == MousePositions[s.reply] IN
    /\ m.ok
    /\ s.monitor
    /\ ~NotOnMonitor(m.x, m.y, monitor_geometry)

(* int monitor_mouse_y = mouse_y - monitor_geometry.y *)
MonitorMouseY(s) == MousePositions[s.reply].y - monitor_geometry.y

(* Where checkMousePosition takes the monitor bounds from, for a sample    *)
(* that gets past the first two early returns: the geometry property of    *)
(* the live Gdk monitor of the bar's output ("live"); "none" when it       *)
(* returns before it needs them.                                           *)
GeometrySource(s) ==
  IF MousePositions[s.reply].ok /\ s.monitor THEN "live" ELSE "none"

(* The zone chosen by the if / else if / else of checkMousePosition. *)
Zone(monitor_mouse_y) ==
  IF monitor_mouse_y <= threshold_hidden_y_ THEN "top"
  ELSE IF monitor_mouse_y > threshold_visible_y_ THEN "bottom"
  ELSE "middle"

(* Variant: a top-zone trigger does not cancel a pending hide. *)
ZoneState_NoCancelFromPendingHidden(st, flag, zone) ==
  CASE zone = "top" ->
         IF flag /\ st = HIDDEN THEN PENDING_VISIBLE
         ELSE st
    [] zone = "bottom" ->
         IF st = VISIBLE THEN PENDING_HIDDEN
         ELSE IF st = PENDING_VISIBLE THEN PENDING_HIDDEN
         ELSE st
    [] OTHER -> st

(* Variant: the first top-zone sample already triggers the show. *)
ZoneState_FirstTrigger(st, flag, zone) ==
  CASE zone = "top" ->
         IF st \in {HIDDEN, PENDING_HIDDEN} THEN PENDING_VISIBLE ELSE st
    [] zone = "bottom" ->
         IF st \in {VISIBLE, PENDING_VISIBLE} THEN PENDING_HIDDEN ELSE st
    [] OTHER -> st

(* The state after the zone branch. *)
ZoneState(st, flag, zone) ==
  CASE zone = "top" ->
         IF flag /\ st = HIDDEN THEN PENDING_VISIBLE
         ELSE IF flag /\ st = PENDING_HIDDEN THEN PENDING_VISIBLE
         ELSE st
    [] zone = "bottom" ->
         IF st = VISIBLE THEN PENDING_HIDDEN
         ELSE IF st = PENDING_VISIBLE THEN PENDING_HIDDEN
         ELSE st
    [] OTHER -> st

(* Variant: cancelling a pending show does not restart the timer. *)
ZoneSetsTimer_NoRestartOnCancel(st, flag, zone) ==
  CASE zone = "top" -> flag /\ st \in {HIDDEN, PENDING_HIDDEN}
    [] zone = "bottom" -> st = VISIBLE
    [] OTHER -> FALSE

(* Variant: a top-zone trigger restarts a show timer that is running. *)
ZoneSetsTimer_RestartOnTop(st, flag, zone) ==
  CASE zone = "top" -> flag /\ st \in {HIDDEN, PENDING_HIDDEN, PENDING_VISIBLE}
    [] zone = "bottom" -> st \in {VISIBLE, PENDING_VISIBLE}
    [] OTHER -> FALSE

(* Variant: every bottom-zone sample restarts the hide timer. *)
ZoneSetsTimer_RestartWhilePending(st, flag, zone) ==
  CASE zone = "top" -> flag /\ st \in {HIDDEN, PENDING_HIDDEN}
    [] zone = "bottom" -> st \in {VISIBLE, PENDING_VISIBLE, PENDING_HIDDEN}
    [] OTHER -> FALSE

(* TRUE when the zone branch assigns timer_start_ = now(). *)
ZoneSetsTimer(st, flag, zone) ==
  CASE zone = "top" -> flag /\ st \in {HIDDEN, PENDING_HIDDEN}
    [] zone = "bottom" -> st \in {VISIBLE, PENDING_VISIBLE}
    [] OTHER -> FALSE

(* Variant: a middle-zone sample leaves the flag as it was. *)
ZoneFlag_MiddleKeeps(zone) ==
  IF zone = "middle" THEN last_trigger_was_show_ ELSE zone = "top"

(* last_trigger_was_show_ after the zone branch. *)
ZoneFlag(zone) == zone = "top"

Max(a, b) == IF a >= b THEN a ELSE b

(* Variant: the configured delay is used without the 10 ms floor. *)
EffectiveDelay_NoFloor(delay) == delay

(* std::max(delay_show_, 10u) and std::max(delay_hide_, 10u) *)
EffectiveDelay(delay) == Max(delay, MinDelay)

(* Variant: the delay must be exceeded, not merely reached. *)
Expired_Strict(st, elapsed) ==
  \/ st = PENDING_VISIBLE /\ elapsed > EffectiveDelay(delay_show_)
  \/ st = PENDING_HIDDEN /\ elapsed > EffectiveDelay(delay_hide_)

(* The expiry test of the two pending branches. *)
Expired(st, elapsed) ==
  \/ st = PENDING_VISIBLE /\ elapsed >= EffectiveDelay(delay_show_)
  \/ st = PENDING_HIDDEN /\ elapsed >= EffectiveDelay(delay_hide_)

(* The state after the expiry check. *)
ExpiryState(st, elapsed) ==
  IF st = PENDING_VISIBLE /\ Expired(st, elapsed) THEN VISIBLE
  ELSE IF st = PENDING_HIDDEN /\ Expired(st, elapsed) THEN HIDDEN
  ELSE st

(* Variant: a middle-zone sample skips the expiry check. *)
ExpiryChecked_OutsideMiddle(zone) == zone # "middle"

(* The expiry check follows the three zone branches and is not nested in   *)
(* any of them: it runs for a sample of every zone.                        *)
ExpiryChecked(zone) == TRUE

(* Variant: the main thread is notified whenever a transition is pending. *)
Emits_WhilePending(st, elapsed) ==
  IF st \in {PENDING_VISIBLE, PENDING_HIDDEN} THEN 1 ELSE 0

(* Variant: only the expiry of the show timer notifies the main thread. *)
Emits_ShowOnly(st, elapsed) ==
  IF st = PENDING_VISIBLE /\ Expired(st, elapsed) THEN 1 ELSE 0

(* The number of dp.emit() calls of the expiry check. *)
Emits(st, elapsed) == IF Expired(st, elapsed) THEN 1 ELSE 0

(* Variant: the bar is shown as soon as a show is pending. *)
update_ShowWhilePending(bar, st) ==
  IF ~bar THEN << >>
  ELSE IF st \in {VISIBLE, PENDING_HIDDEN, PENDING_VISIBLE} THEN << MODE_DEFAULT >>
  ELSE << MODE_INVISIBLE >>

(* Autohide::update: the setMode calls it makes, in order. *)
update(bar, st) ==
  IF ~bar THEN << >>
  ELSE IF st \in {VISIBLE, PENDING_HIDDEN} THEN << MODE_DEFAULT >>
  ELSE << MODE_INVISIBLE >>

(* bar_ is the address of the Bar the constructor was given: never null. *)
bar_ == TRUE

----------------------------------------------------------------------------
(* Raw event strings, as sequences of tokens; ">" is the delimiter. *)
Events ==
  { << "workspacev2", ">", "2", ",", "web" >>,
    << "focusedmonv2", ">", "DP-1", ",", "2" >>,
    << "activewindow", ">", "workspacev2" >>,
    << "workspace", ">", "2" >> }

(* ev.find_first_of('>'): the first index of ">", 0 for npos. *)
FindFirstOf(ev, ch) ==
  IF \E i \in 1..Len(ev) : ev[i] = ch
    THEN CHOOSE i \in 1..Len(ev) : ev[i] = ch /\ \A j \in 1..(i - 1) : ev[j] # ch
    ELSE 0

(* Variant: the payload is not stripped from the event. *)
EventName_WholeString(ev) == ev

(* The eventName computed by onEvent. *)
EventName(ev) ==
  LET pos == FindFirstOf(ev, ">") IN
    IF pos = 0 THEN ev ELSE SubSeq(ev, 1, pos - 1)

(* Variant: only the workspace event forces the bar visible. *)
IsForcedVisible_OnlyWorkspace(ev) ==
  EventName(ev) = << "workspacev2" >>

(* The test that guards the forced-visible branch of onEvent. *)
IsForcedVisible(ev) ==
  EventName(ev) = << "workspacev2" >> \/ EventName(ev) = << "focusedmonv2" >>

----------------------------------------------------------------------------
(* History bookkeeping *)
NoLast(op) ==
  [ op |-> op, kind |-> "none", y |-> 0, state |-> VISIBLE, read |-> VISIBLE, ev |-> << >>,
    geom |-> "none" ]

(* The clock value at which the model stops the clock. *)
ClockBound ==
  Max(delay_hide_, MinDelay) + Max(delay_show_, MinDelay) + MaxCycles * check_interval_

Min(a, b) == IF a <= b THEN a ELSE b

(* The reference scenario: default thresholds and delays, 100 ms interval. *)
ScenConfig ==
  /\ threshold_hidden_y_ = 1
  /\ threshold_visible_y_ = 50
  /\ delay_show_ = 0
  /\ delay_hide_ = 3000
  /\ check_interval_ = 100

(* Number of samples, 100 ms apart, up to the first one 3000 ms after the first. *)
ScenHideSample == (3000 \div 100) + 1

(* Progress through the scenario after a poll cycle with sample s. *)
ScenAfterCheck(sc, s) ==
  IF sc < 0 \/ ~Applicable(s) THEN 0 - 1
  ELSE IF sc < ScenHideSample
    THEN (IF MonitorMouseY(s) = 60 THEN sc + 1 ELSE 0 - 1)
  ELSE IF sc < ScenHideSample + 3
    THEN (IF MonitorMouseY(s) = 0 THEN sc + 1 ELSE 0 - 1)
  ELSE 0 - 1

----------------------------------------------------------------------------
(* Locals of checkMousePosition while the thread is inside it: the zone of *)
(* the sample, the state the pending store will write and the state the    *)
(* load that decided it returned; and, as history, whether a               *)
(* forced-visible event has written waybar_state_ since that load (stale), *)
(* the state and flag the call started from, and whether a forced-visible  *)
(* event fell inside the call (disturbed).                                 *)
NoLoc ==
  [ zone |-> "none", target |-> VISIBLE, read |-> VISIBLE, stale |-> FALSE,
    st0 |-> VISIBLE, flag0 |-> FALSE, disturbed |-> FALSE ]

(* A parse that has not been made. *)
NoResult == [ok |-> FALSE, x |-> 0, y |-> 0, done |-> FALSE]

(* MonitorCache's default member initialisers. *)
EmptyMonitorCache == [x |-> 0, y |-> 0, width |-> 0, height |-> 0, valid |-> FALSE]

(* The trace while no run from Hidden is being recorded. *)
NoTrace == << "none" >>

(* The values of the histories trace and ref in the specifications that    *)
(* do not record them.                                                     *)
TraceOff == << "off" >>
RefOff == [state |-> "off", timer |-> 0, counter |-> 0]
HistoryOff == trace = TraceOff /\ ref = RefOff

(* The histories at construction in the specification that records them:   *)
(* the reference machine starts where the constructor leaves the module.   *)
HistoryOn ==
  /\ trace = NoTrace
  /\ ref = [state |-> VISIBLE, timer |-> 0, counter |-> 0]

(* What cava_last holds before any backend call. *)
NoCavaLast ==
  [op |-> "none", force |-> FALSE, silence_emitted |-> FALSE, update_emitted |-> FALSE,
   delay |-> 0]

(* What thread_loc holds while the update thread is outside doUpdate(). *)
NoThreadLoc == [branch |-> "none", test |-> FALSE]

(* std::chrono: one second is 1000 milliseconds. *)
MsPerSecond == 1000

(* frame_time_milsec_ = std::chrono::milliseconds((int)(1e3 / prm_.framerate)) *)
BaseFrameTime(framerate) == MsPerSecond \div framerate

(* CavaBackend::CavaBackend for the parameters p.  The members the         *)
(* constructor does not assign start at zero and false, except             *)
(* silence_prev_, which starts at prev.                                    *)
CavaBackendConstructedWith(p, prev) ==
  /\ prm_ = p
  /\ suspendFlag = FALSE
  /\ silence_ = FALSE
  /\ silence_prev_ = prev
  /\ sleep_counter_ = 0
  /\ frame_time_milsec_ = BaseFrameTime(p.framerate)
  /\ suspend_silence_delay_ = 0
  /\ thread_pc = "idle"
  /\ thread_loc = NoThreadLoc
  /\ cava_last = NoCavaLast

(* The backend in the specifications of the Autohide module, which never   *)
(* call it.                                                                *)
CavaBackendUnused == CavaBackendConstructedWith([framerate |-> 2, sleep_timer |-> 0], FALSE)

(* Autohide::Autohide: the state after construction.  The module is        *)
(* registered for the two events, the mouse-tracking thread has been       *)
(* started and is about to make its first poll.                            *)
Constructed ==
  /\ config_ \in Configs
  /\ threshold_hidden_y_ = UIntOr(config_.threshold_hidden_y, DefaultThresholdHiddenY)
  /\ threshold_visible_y_ = UIntOr(config_.threshold_visible_y, DefaultThresholdVisibleY)
  /\ delay_show_ = UIntOr(config_.delay_show, DefaultDelayShow)
  /\ delay_hide_ = UIntOr(config_.delay_hide, DefaultDelayHide)
  /\ check_interval_ = UIntOr(config_.check_interval, DefaultCheckInterval)
  /\ waybar_state_ = VISIBLE
  /\ timer_start_ = 0
  /\ last_trigger_was_show_ \in BOOLEAN
  /\ clock = 0
  /\ pc = "check"
  /\ loc = NoLoc
  /\ dispatched = 0
  /\ barMode = MODE_DEFAULT
  /\ setModeCalls = << >>
  /\ last = NoLast("init")
  /\ enteredAt = 0
  /\ hrun = 0 - 1
  /\ scen = IF ScenConfig THEN 0 ELSE 0 - 1
  /\ hide_cancelled = FALSE
  /\ cached_monitor_ = EmptyMonitorCache
  /\ mouse_thread_running_ = TRUE
  /\ mouse_thread_exit_ = FALSE
  /\ mouse_threads = 1
  /\ ipc_registered = TRUE
  /\ mainpc = "idle"
  /\ calls = 0
  /\ polls_after_exit = 0

Init ==
  /\ Constructed
  /\ CavaBackendUnused
  /\ HistoryOff
  /\ cursor_reply = << >>
  /\ cursor_result = NoResult

(* Variant: a skipped sample counts as a sample outside the top zone. *)
SkippedFlag_Cleared(flag) == FALSE

(* last_trigger_was_show_ after one of the three early returns of          *)
(* checkMousePosition, none of which assigns it.                           *)
SkippedFlag(flag) == flag

(* The trace after a poll that started in state st with the flag flag and  *)
(* sampled label: a zone, or the kind of an inapplicable sample.  A trace  *)
(* begins at a poll that starts in Hidden with the flag clear and holds    *)
(* TraceLen polls.                                                         *)
TraceAfter(tr, st, flag, label) ==
  IF tr = TraceOff THEN TraceOff
  ELSE IF tr # NoTrace /\ Len(tr) < TraceLen THEN Append(tr, label)
  ELSE IF st = HIDDEN /\ ~flag THEN << label >>
  ELSE NoTrace

(* The state machine with a trigger counter that must reach two: one       *)
(* sample at monitor-relative y taken at time now.  The counter saturates  *)
(* at two.                                                                 *)
RefStep(r, y, now) ==
  IF r = RefOff THEN RefOff ELSE
  LET top == y <= threshold_hidden_y_
      bottom == ~top /\ y > threshold_visible_y_
      counter == IF top THEN (IF r.counter >= 1 THEN 2 ELSE 1) ELSE 0
      show == top /\ counter >= 2 /\ r.state \in {HIDDEN, PENDING_HIDDEN}
      hide == bottom /\ r.state \in {VISIBLE, PENDING_VISIBLE}
      st1 == IF show THEN PENDING_VISIBLE ELSE IF hide THEN PENDING_HIDDEN ELSE r.state
      t1 == IF show \/ hide THEN now ELSE r.timer
      st2 == IF st1 = PENDING_VISIBLE /\ now - t1 >= Max(delay_show_, MinDelay) THEN VISIBLE
             ELSE IF st1 = PENDING_HIDDEN /\ now - t1 >= Max(delay_hide_, MinDelay) THEN HIDDEN
             ELSE st1
  IN  [state |-> st2, timer |-> t1, counter |-> counter]

(* Autohide::checkMousePosition, one whole call with sample s. *)
CheckMousePosition(s) ==
  /\ polls_after_exit' = IF mouse_thread_exit_ THEN polls_after_exit + 1 ELSE polls_after_exit
  /\ UNCHANGED << cached_monitor_, mouse_thread_running_, mouse_thread_exit_, mouse_threads,
                  ipc_registered, mainpc, calls, parseVars, cavaVars >>
  /\ pc = "check"
  /\ dispatched < MaxPending
  /\ pc' = "sleep"
  /\ IF ~Applicable(s)
       THEN /\ UNCHANGED << waybar_state_, timer_start_, dispatched, enteredAt >>
            /\ last_trigger_was_show_' = SkippedFlag(last_trigger_was_show_)
            /\ hrun' = 0 - 1
            /\ UNCHANGED << hide_cancelled, ref >>
            /\ trace' = TraceAfter(trace, waybar_state_, last_trigger_was_show_, s.kind)
            /\ last' = [ NoLast("check") EXCEPT !.kind = s.kind, !.state = waybar_state_,
                           !.geom = GeometrySource(s) ]
       ELSE LET zone == Zone(MonitorMouseY(s))
                st1 == ZoneState(waybar_state_, last_trigger_was_show_, zone)
                t1 == IF ZoneSetsTimer(waybar_state_, last_trigger_was_show_, zone)
                        THEN clock ELSE timer_start_
                elapsed == clock - t1
                st2 == IF ExpiryChecked(zone) THEN ExpiryState(st1, elapsed) ELSE st1
            IN  /\ waybar_state_' = st2
                /\ timer_start_' = t1
                /\ last_trigger_was_show_' = ZoneFlag(zone)
                /\ dispatched' = dispatched + (IF ExpiryChecked(zone) THEN Emits(st1, elapsed) ELSE 0)
                /\ enteredAt' = IF st1 # waybar_state_ THEN clock ELSE enteredAt
                /\ hrun' = IF zone = "top"
                             THEN (IF hrun >= 0 THEN Min(hrun + 1, RunCap) ELSE 0 - 1)
                             ELSE (IF st2 = HIDDEN THEN 0 ELSE 0 - 1)
                /\ hide_cancelled' =
                     IF zone = "bottom" THEN FALSE
                     ELSE IF waybar_state_ = PENDING_HIDDEN /\ st1 = PENDING_VISIBLE THEN TRUE
                     ELSE hide_cancelled
                /\ trace' = TraceAfter(trace, waybar_state_, last_trigger_was_show_, zone)
                /\ ref' = RefStep(ref, MonitorMouseY(s), clock)
                /\ last' = [ NoLast("check") EXCEPT !.kind = s.kind, !.y = MonitorMouseY(s),
                               !.state = waybar_state_, !.geom = GeometrySource(s) ]
  /\ scen' = ScenAfterCheck(scen, s)
  /\ setModeCalls' = << >>
  /\ UNCHANGED << cfgVars, clock, loc, barMode >>

(* Variant: the loop never looks at the exit flag. *)
LoopContinues_IgnoresExit(exit) == TRUE

(* while (!mouse_thread_exit_.load()) *)
LoopContinues(exit) == ~exit

(* std::this_thread::sleep_for(check_interval_): the thread sleeps for at  *)
(* least the interval; over is the oversleep.  On waking the thread        *)
(* evaluates the loop condition !mouse_thread_exit_.load().                *)
Sleep(over) ==
  /\ UNCHANGED << hide_cancelled, trace, ref, cached_monitor_, lifeVars, parseVars, cavaVars >>
  /\ pc = "sleep"
  /\ clock + check_interval_ + over <= ClockBound
  /\ clock' = clock + check_interval_ + over
  /\ pc' = IF LoopContinues(mouse_thread_exit_) THEN "check" ELSE "exited"
  /\ last' = NoLast("sleep")
  /\ scen' = IF scen >= 1 /\ scen < ScenHideSample /\ over # 0 THEN 0 - 1 ELSE scen
  /\ setModeCalls' = << >>
  /\ UNCHANGED << cfgVars, waybar_state_, timer_start_, last_trigger_was_show_, loc,
                  dispatched, barMode, enteredAt, hrun >>

(* Variant: a forced-visible event restarts the timer. *)
EventTimerStart_Restart(timer, now) == now

(* timer_start_ after the forced-visible branch of onEvent, which does not *)
(* assign it.                                                              *)
EventTimerStart(timer, now) == timer

(* Autohide::onEvent, called by the IPC thread while the module is         *)
(* registered.                                                             *)
OnEvent(ev) ==
  /\ UNCHANGED << hide_cancelled, cached_monitor_, lifeVars, parseVars, cavaVars >>
  /\ ipc_registered
  /\ dispatched < MaxPending
  /\ IF IsForcedVisible(ev)
       THEN /\ waybar_state_' = VISIBLE
            /\ timer_start_' = EventTimerStart(timer_start_, clock)
            /\ dispatched' = dispatched + 1
            /\ hrun' = 0 - 1
            /\ scen' = 0 - 1
            /\ trace' = IF trace = TraceOff THEN TraceOff ELSE NoTrace
            /\ ref' = IF ref = RefOff THEN RefOff ELSE [ref EXCEPT !.state = VISIBLE]
            /\ loc' = [loc EXCEPT !.stale = (pc \in {"zone_store", "expiry_store"}),
                                  !.disturbed = (pc \notin {"check", "sleep"})]
       ELSE UNCHANGED << waybar_state_, timer_start_, dispatched, hrun, scen, trace, ref, loc >>
  /\ last' = [ NoLast("onEvent") EXCEPT !.state = waybar_state_, !.ev = ev ]
  /\ setModeCalls' = << >>
  /\ UNCHANGED << cfgVars, last_trigger_was_show_, clock, pc, barMode, enteredAt >>

(* The main thread, when it is not inside another call of the module,      *)
(* delivers one dispatcher notification: Autohide::update.                 *)
Update ==
  /\ UNCHANGED << hide_cancelled, trace, ref, cached_monitor_, lifeVars, parseVars, cavaVars >>
  /\ mainpc = "idle"
  /\ dispatched > 0
  /\ dispatched' = dispatched - 1
  /\ setModeCalls' = update(bar_, waybar_state_)
  /\ barMode' = IF Len(update(bar_, waybar_state_)) = 0
                  THEN barMode
                  ELSE update(bar_, waybar_state_)[Len(update(bar_, waybar_state_))]
  /\ last' = [ NoLast("update") EXCEPT !.state = waybar_state_ ]
  /\ UNCHANGED << cfgVars, waybar_state_, timer_start_, last_trigger_was_show_, clock, pc, loc,
                  enteredAt, hrun, scen >>

Next ==
  \/ \E s \in Samples : CheckMousePosition(s)
  \/ \E over \in {0, check_interval_} : Sleep(over)
  \/ \E ev \in Events : OnEvent(ev)
  \/ Update

Spec == Init /\ [][Next]_vars

----------------------------------------------------------------------------
(* Vocabulary of the properties, stated from the recorded sample and not   *)
(* from the operators of the model.                                        *)
PolledOn(l) == l.op = "check" /\ l.kind = "on_monitor"
PolledOff(l) == l.op = "check" /\ l.kind # "on_monitor"
TopSample(l) == PolledOn(l) /\ l.y <= threshold_hidden_y_
BottomSample(l) == PolledOn(l) /\ l.y > threshold_visible_y_
ForcedEvent(l) ==
  /\ l.op = "onEvent"
  /\ Len(l.ev) >= 1
  /\ l.ev[1] \in {"workspacev2", "focusedmonv2"}
  /\ (Len(l.ev) >= 2 => l.ev[2] = ">")
HideDelay == IF delay_hide_ >= 10 THEN delay_hide_ ELSE 10
ShowDelay == IF delay_show_ >= 10 THEN delay_show_ ELSE 10

(* C1: for the configured consecutive-checks-before-visible N (2 when the  *)
(* key is absent), N top-zone samples in a row from Hidden give            *)
(* PendingVisible, and fewer than N leave the state Hidden.                *)
C1_ConfiguredConsecutiveChecks ==
  LET n == IF config_.consecutive_checks_before_visible >= 0
             THEN config_.consecutive_checks_before_visible ELSE 2
  IN  /\ (hrun = n => waybar_state_ = PENDING_VISIBLE)
      /\ (hrun >= 1 /\ hrun < n => waybar_state_ = HIDDEN)

(* C2: an event named workspacev2 or focusedmonv2 leaves the state Visible *)
(* and dispatches exactly one apply-visibility request, whatever the state *)
(* was.                                                                    *)
C2_ForcedVisible ==
  [][ ForcedEvent(last') => (waybar_state_' = VISIBLE /\ dispatched' = dispatched + 1) ]_vars

C2_Witness ==
  /\ ForcedEvent(last)
  /\ last.state = PENDING_HIDDEN
  /\ waybar_state_ = VISIBLE
  /\ dispatched = 1

(* C3: a poll cycle whose sample is inapplicable (query failed, no         *)
(* monitor, cursor off the monitor) changes neither the state, the timer   *)
(* nor the debounce flag and dispatches nothing.                           *)
C3_InapplicableSampleIsNoOp ==
  [][ PolledOff(last') =>
        UNCHANGED << waybar_state_, timer_start_, last_trigger_was_show_, dispatched >> ]_vars

C3_Witness ==
  /\ PolledOff(last)
  /\ last.kind = "off_monitor"
  /\ waybar_state_ = PENDING_HIDDEN
  /\ clock - timer_start_ >= HideDelay

(* C4: a bottom-zone sample in PendingVisible gives PendingHidden in that  *)
(* sample with the timer restarted at the sample's time, and Hidden is not *)
(* reached before the hide delay (at least 10 ms) has passed since the     *)
(* state became PendingHidden.                                             *)
C4_BottomCancelsShow ==
  [][ /\ (BottomSample(last') /\ waybar_state_ = PENDING_VISIBLE) =>
           (waybar_state_' = PENDING_HIDDEN /\ timer_start_' = clock')
      /\ (last'.op = "check" /\ waybar_state_' = HIDDEN /\ waybar_state_ # HIDDEN) =>
           clock' - enteredAt' >= HideDelay ]_vars

C4_Witness ==
  /\ BottomSample(last)
  /\ last.state = PENDING_VISIBLE
  /\ waybar_state_ = PENDING_HIDDEN
  /\ timer_start_ = clock
  /\ clock > 0

(* C5: bottom-zone samples in PendingHidden leave the timer alone, and     *)
(* Hidden is reached at the first applicable sample taken at least the     *)
(* hide delay after PendingHidden was entered, unless that sample is the   *)
(* top-zone sample that schedules a show.                                  *)
C5_HideTimerNotReset ==
  [][ /\ (BottomSample(last') /\ waybar_state_ = PENDING_HIDDEN) =>
           timer_start_' = timer_start_
      /\ (last'.op = "check" /\ waybar_state_ = PENDING_HIDDEN /\ waybar_state_' = HIDDEN) =>
           clock' - enteredAt >= HideDelay
      /\ ( /\ PolledOn(last')
           /\ waybar_state_ = PENDING_HIDDEN
           /\ clock' - enteredAt >= HideDelay
           /\ ~(TopSample(last') /\ last_trigger_was_show_) ) =>
           waybar_state_' = HIDDEN ]_vars

C5_Witness ==
  /\ BottomSample(last)
  /\ last.state = PENDING_HIDDEN
  /\ waybar_state_ = HIDDEN
  /\ clock - enteredAt = HideDelay
  /\ clock - enteredAt >= 3 * check_interval_

(* C6: no pending transition fires at a sample taken less than 10 ms, or   *)
(* less than the configured delay, after the pending state was entered.    *)
C6_DelayFloor ==
  [][ /\ (last'.op = "check" /\ waybar_state_' = VISIBLE /\ waybar_state_ # VISIBLE) =>
           (clock' - enteredAt' >= 10 /\ clock' - enteredAt' >= delay_show_)
      /\ (last'.op = "check" /\ waybar_state_' = HIDDEN /\ waybar_state_ # HIDDEN) =>
           (clock' - enteredAt' >= 10 /\ clock' - enteredAt' >= delay_hide_) ]_vars

C6_Witness ==
  /\ delay_show_ = 0
  /\ PolledOn(last)
  /\ last.state = PENDING_VISIBLE
  /\ waybar_state_ = PENDING_VISIBLE
  /\ clock - enteredAt > 0
  /\ clock - enteredAt < 10

(* C7: update() with a bar makes exactly one setMode call: Default when    *)
(* the state is Visible or PendingHidden, Invisible when it is Hidden or   *)
(* PendingVisible.                                                         *)
C7_UpdateAppliesMode ==
  last.op = "update" =>
    /\ Len(setModeCalls) = 1
    /\ (waybar_state_ \in {VISIBLE, PENDING_HIDDEN} => setModeCalls[1] = MODE_DEFAULT)
    /\ (waybar_state_ \in {HIDDEN, PENDING_VISIBLE} => setModeCalls[1] = MODE_INVISIBLE)

C7_Witness ==
  /\ last.op = "update"
  /\ waybar_state_ = PENDING_VISIBLE
  /\ setModeCalls = << MODE_INVISIBLE >>

(* C8: with no apply-visibility request outstanding, the applied mode is   *)
(* Default during every hide countdown and Invisible during every show     *)
(* countdown.                                                              *)
C8_ModeFollowsCountdown ==
  dispatched = 0 =>
    /\ (waybar_state_ = PENDING_HIDDEN => barMode = MODE_DEFAULT)
    /\ (waybar_state_ = PENDING_VISIBLE => barMode = MODE_INVISIBLE)

(* C9: the reference scenario.  From Visible with the default thresholds   *)
(* and delays and a 100 ms interval: samples y=60 every 100 ms keep        *)
(* PendingHidden until the sample taken 3000 ms after the first, which     *)
(* gives Hidden and a request whose apply sets Invisible; two samples y=0  *)
(* then give PendingVisible, and the next sample gives Visible and a       *)
(* request whose apply sets Default.                                       *)
C9_ReferenceScenario ==
  [][ /\ (scen' >= 1 /\ scen' < ScenHideSample) =>
           (waybar_state_' = PENDING_HIDDEN /\ timer_start_' = 0)
      /\ (scen' = ScenHideSample) => waybar_state_' = HIDDEN
      /\ (scen' = ScenHideSample /\ last'.op = "check") =>
           (clock' = 3000 /\ dispatched' = dispatched + 1)
      /\ (scen' >= ScenHideSample /\ scen' <= ScenHideSample + 2 /\ last'.op = "update") =>
           setModeCalls' = << MODE_INVISIBLE >>
      /\ (scen' = ScenHideSample + 2) => waybar_state_' = PENDING_VISIBLE
      /\ (scen' = ScenHideSample + 3) => waybar_state_' = VISIBLE
      /\ (scen' = ScenHideSample + 3 /\ last'.op = "check") =>
           (clock' - timer_start_' >= 10 /\ dispatched' = dispatched + 1)
      /\ (scen' = ScenHideSample + 3 /\ last'.op = "update") =>
           setModeCalls' = << MODE_DEFAULT >> ]_vars

C9_Witness ==
  /\ scen = ScenHideSample + 3
  /\ last.op = "update"
  /\ waybar_state_ = VISIBLE
  /\ barMode = MODE_DEFAULT
  /\ dispatched = 0

----------------------------------------------------------------------------
(* The same program with checkMousePosition split at every access to the   *)
(* atomic waybar_state_, so that onEvent, which runs on the IPC thread,    *)
(* can fall between a load and the store that depends on it.               *)

(* Lines 150-181, and the zone branch when it touches no atomic: a middle  *)
(* sample, or the first top-zone trigger.                                  *)
T_Begin(s) ==
  /\ UNCHANGED << hide_cancelled, trace, ref, cached_monitor_, lifeVars, parseVars, cavaVars >>
  /\ pc = "check"
  /\ IF ~Applicable(s)
       THEN /\ pc' = "sleep"
            /\ loc' = NoLoc
            /\ UNCHANGED last_trigger_was_show_
       ELSE LET zone == Zone(MonitorMouseY(s)) IN
            /\ loc' = [NoLoc EXCEPT !.zone = zone, !.st0 = waybar_state_,
                                   !.flag0 = last_trigger_was_show_]
            /\ IF zone = "middle" \/ (zone = "top" /\ ~last_trigger_was_show_)
                 THEN /\ last_trigger_was_show_' = ZoneFlag(zone)
                      /\ pc' = "expiry_load1"
                 ELSE /\ pc' = "zone_load1"
                      /\ UNCHANGED last_trigger_was_show_
  /\ last' = [ NoLast("begin") EXCEPT !.kind = s.kind, !.state = waybar_state_,
                 !.geom = GeometrySource(s) ]
  /\ setModeCalls' = << >>
  /\ UNCHANGED << cfgVars, waybar_state_, timer_start_, clock, dispatched, barMode,
                  enteredAt, hrun, scen >>

(* The first comparison of the zone branch: == HIDDEN (top), == VISIBLE    *)
(* (bottom).                                                               *)
T_ZoneLoad1 ==
  /\ UNCHANGED << hide_cancelled, trace, ref, cached_monitor_, lifeVars, parseVars, cavaVars >>
  /\ pc = "zone_load1"
  /\ IF waybar_state_ = (IF loc.zone = "top" THEN HIDDEN ELSE VISIBLE)
       THEN /\ pc' = "zone_store"
            /\ loc' = [loc EXCEPT !.stale = FALSE, !.read = waybar_state_,
                         !.target = ZoneState(waybar_state_, TRUE, loc.zone)]
       ELSE /\ pc' = "zone_load2"
            /\ UNCHANGED loc
  /\ last' = NoLast("zone_load1")
  /\ UNCHANGED << cfgVars, waybar_state_, timer_start_, last_trigger_was_show_, clock,
                  dispatched, barMode, setModeCalls, enteredAt, hrun, scen >>

(* The second comparison: == PENDING_HIDDEN (top), == PENDING_VISIBLE      *)
(* (bottom); when it fails the branch only writes the flag.                *)
T_ZoneLoad2 ==
  /\ UNCHANGED << hide_cancelled, trace, ref, cached_monitor_, lifeVars, parseVars, cavaVars >>
  /\ pc = "zone_load2"
  /\ IF waybar_state_ = (IF loc.zone = "top" THEN PENDING_HIDDEN ELSE PENDING_VISIBLE)
       THEN /\ pc' = "zone_store"
            /\ loc' = [loc EXCEPT !.stale = FALSE, !.read = waybar_state_,
                         !.target = ZoneState(waybar_state_, TRUE, loc.zone)]
            /\ UNCHANGED last_trigger_was_show_
       ELSE /\ pc' = "expiry_load1"
            /\ last_trigger_was_show_' = ZoneFlag(loc.zone)
            /\ UNCHANGED loc
  /\ last' = NoLast("zone_load2")
  /\ UNCHANGED << cfgVars, waybar_state_, timer_start_, clock, dispatched, barMode,
                  setModeCalls, enteredAt, hrun, scen >>

(* waybar_state_ = PENDING_...; timer_start_ = now(); and the flag. *)
T_ZoneStore ==
  /\ UNCHANGED << hide_cancelled, trace, ref, cached_monitor_, lifeVars, parseVars, cavaVars >>
  /\ pc = "zone_store"
  /\ waybar_state_' = loc.target
  /\ timer_start_' = clock
  /\ last_trigger_was_show_' = ZoneFlag(loc.zone)
  /\ pc' = "expiry_load1"
  /\ last' = [ NoLast("zone_store") EXCEPT !.state = waybar_state_, !.read = loc.read,
                 !.kind = IF loc.stale THEN "stale" ELSE "fresh" ]
  /\ loc' = [loc EXCEPT !.stale = FALSE]
  /\ UNCHANGED << cfgVars, clock, dispatched, barMode, setModeCalls, enteredAt, hrun, scen >>

(* if (waybar_state_ == PENDING_VISIBLE) { if (elapsed >= ...) *)
T_ExpiryLoad1 ==
  /\ UNCHANGED << hide_cancelled, trace, ref, cached_monitor_, lifeVars, parseVars, cavaVars >>
  /\ pc = "expiry_load1"
  /\ IF waybar_state_ = PENDING_VISIBLE
       THEN IF Expired(PENDING_VISIBLE, clock - timer_start_)
              THEN /\ pc' = "expiry_store"
                   /\ loc' = [loc EXCEPT !.stale = FALSE, !.read = waybar_state_,
                                !.target = VISIBLE]
              ELSE /\ pc' = "sleep"
                   /\ loc' = NoLoc
       ELSE /\ pc' = "expiry_load2"
            /\ UNCHANGED loc
  /\ last' = NoLast("expiry_load1")
  /\ UNCHANGED << cfgVars, waybar_state_, timer_start_, last_trigger_was_show_, clock,
                  dispatched, barMode, setModeCalls, enteredAt, hrun, scen >>

(* else if (waybar_state_ == PENDING_HIDDEN) { if (elapsed >= ...) *)
T_ExpiryLoad2 ==
  /\ UNCHANGED << hide_cancelled, trace, ref, cached_monitor_, lifeVars, parseVars, cavaVars >>
  /\ pc = "expiry_load2"
  /\ IF waybar_state_ = PENDING_HIDDEN /\ Expired(PENDING_HIDDEN, clock - timer_start_)
       THEN /\ pc' = "expiry_store"
            /\ loc' = [loc EXCEPT !.stale = FALSE, !.read = waybar_state_, !.target = HIDDEN]
       ELSE /\ pc' = "sleep"
            /\ loc' = NoLoc
  /\ last' = NoLast("expiry_load2")
  /\ UNCHANGED << cfgVars, waybar_state_, timer_start_, last_trigger_was_show_, clock,
                  dispatched, barMode, setModeCalls, enteredAt, hrun, scen >>

(* waybar_state_ = VISIBLE or HIDDEN; dp.emit(); *)
T_ExpiryStore ==
  /\ UNCHANGED << hide_cancelled, trace, ref, cached_monitor_, lifeVars, parseVars, cavaVars >>
  /\ pc = "expiry_store"
  /\ dispatched < MaxPending
  /\ waybar_state_' = loc.target
  /\ dispatched' = dispatched + 1
  /\ pc' = "sleep"
  /\ last' = [ NoLast("expiry_store") EXCEPT !.state = waybar_state_, !.read = loc.read,
                 !.kind = IF loc.stale THEN "stale" ELSE "fresh" ]
  /\ loc' = NoLoc
  /\ UNCHANGED << cfgVars, timer_start_, last_trigger_was_show_, clock, barMode,
                  setModeCalls, enteredAt, hrun, scen >>

(* The configurations with a short poll interval. *)
FastConfigs == { c \in Configs : IsUInt(c.check_interval) /\ c.check_interval < MinDelay }

InitThreads == Init /\ config_ \in FastConfigs

NextThreads ==
  \/ \E s \in Samples : T_Begin(s)
  \/ T_ZoneLoad1
  \/ T_ZoneLoad2
  \/ T_ZoneStore
  \/ T_ExpiryLoad1
  \/ T_ExpiryLoad2
  \/ T_ExpiryStore
  \/ \E over \in {0, check_interval_} : Sleep(over)
  \/ \E ev \in Events : OnEvent(ev)
  \/ Update

SpecThreads == InitThreads /\ [][NextThreads]_vars

(* A call of checkMousePosition that no forced-visible event fell into     *)
(* ends in the state the whole-call action CheckMousePosition computes.    *)
ThreadsAgreeWithCall ==
  [][ (pc \notin {"check", "sleep"} /\ pc' = "sleep" /\ ~loc.disturbed) =>
        LET st1 == ZoneState(loc.st0, loc.flag0, loc.zone) IN
          /\ waybar_state_' = ExpiryState(st1, clock - timer_start_')
          /\ last_trigger_was_show_' = ZoneFlag(loc.zone)
          /\ timer_start_' = IF ZoneSetsTimer(loc.st0, loc.flag0, loc.zone)
                               THEN clock ELSE timer_start_
          /\ dispatched' = IF Expired(st1, clock - timer_start_')
                             THEN dispatched + 1 ELSE dispatched ]_vars

(* C10: the poller never completes a transition it decided on from a state *)
(* it read before a forced-visible event wrote Visible: no store of        *)
(* checkMousePosition overwrites a Visible that onEvent wrote after the    *)
(* load the store depends on.                                              *)
C10_SampleAtomicWrtForcedVisible ==
  ~( /\ last.op \in {"zone_store", "expiry_store"}
     /\ last.kind = "stale"
     /\ last.read # VISIBLE
     /\ last.state = VISIBLE
     /\ waybar_state_ # VISIBLE )

----------------------------------------------------------------------------
(* C11: in every poll cycle that needs the monitor bounds, they come from  *)
(* the cached snapshot (cached_monitor_, valid), never from the live       *)
(* monitor object.                                                         *)
C11_PollerReadsSnapshotOnly ==
  (last.op = "check" /\ last.kind \in {"on_monitor", "off_monitor"}) =>
    (last.geom = "cache" /\ cached_monitor_.valid)

----------------------------------------------------------------------------
(* The lifecycle of the mouse-tracking thread: startMouseTracking,         *)
(* stopMouseTracking and the destructor, which run on the main thread,     *)
(* and the loop of mouseTrackingThread.                                    *)

(* The variables of the controller that the lifecycle code does not touch. *)
controlVars ==
  << cfgVars, waybar_state_, timer_start_, last_trigger_was_show_, clock, loc, dispatched,
     barMode, enteredAt, hrun, scen, hide_cancelled, trace, ref, cached_monitor_, parseVars,
     cavaVars >>

(* Variant: the guard of startMouseTracking never fires. *)
AlreadyRunning_Never(running) == FALSE

(* if (mouse_thread_running_.load()) return; *)
AlreadyRunning(running) == running

(* Autohide::startMouseTracking.  Assigning a new std::thread to           *)
(* mouse_thread_ adds a thread that runs mouseTrackingThread from its      *)
(* first line.                                                             *)
StartMouseTracking ==
  /\ mainpc = "idle"
  /\ calls < MaxCalls
  /\ calls' = calls + 1
  /\ IF AlreadyRunning(mouse_thread_running_)
       THEN UNCHANGED << mouse_thread_running_, mouse_thread_exit_, mouse_threads, pc,
                         polls_after_exit >>
       ELSE /\ mouse_thread_exit_' = FALSE
            /\ mouse_threads' = mouse_threads + 1
            /\ pc' = "entry"
            /\ mouse_thread_running_' = TRUE
            /\ polls_after_exit' = 0
  /\ last' = [ NoLast("start") EXCEPT
                 !.kind = IF mouse_thread_running_ THEN "was_running" ELSE "was_stopped" ]
  /\ setModeCalls' = << >>
  /\ UNCHANGED << controlVars, ipc_registered, mainpc >>

(* The first evaluation of the loop condition by a thread just started. *)
ThreadEntry ==
  /\ pc = "entry"
  /\ pc' = IF LoopContinues(mouse_thread_exit_) THEN "check" ELSE "exited"
  /\ last' = NoLast("entry")
  /\ setModeCalls' = << >>
  /\ UNCHANGED << controlVars, lifeVars >>

(* Autohide::stopMouseTracking up to the join: the guard and the store of  *)
(* the exit flag.  dtor tells whether the destructor makes the call.  The  *)
(* call is made while the clock and the dispatcher queue of the model      *)
(* leave room for the cycle in flight.                                     *)
StopBegin(dtor) ==
  /\ mainpc = "idle"
  /\ dtor \/ calls < MaxCalls
  /\ clock + check_interval_ <= ClockBound
  /\ dispatched < MaxPending
  /\ calls' = IF dtor THEN calls ELSE calls + 1
  /\ IF ~mouse_thread_running_
       THEN /\ mainpc' = IF dtor THEN "unregister" ELSE "idle"
            /\ UNCHANGED mouse_thread_exit_
       ELSE /\ mouse_thread_exit_' = TRUE
            /\ mainpc' = IF dtor THEN "dtor_join" ELSE "join"
  /\ last' = [ NoLast(IF dtor THEN "destroy" ELSE "stop") EXCEPT
                 !.kind = IF mouse_thread_running_ THEN "was_running" ELSE "was_stopped" ]
  /\ setModeCalls' = << >>
  /\ UNCHANGED << controlVars, pc, mouse_thread_running_, mouse_threads, ipc_registered,
                  polls_after_exit >>

(* Variant: the join also returns while the thread sleeps. *)
JoinReturns_WhileSleeping(p) == p \in {"exited", "sleep"}

(* Variant: the thread is detached instead of joined. *)
JoinReturns_Detached(p) == TRUE

(* mouse_thread_.join() returns when the thread function has returned. *)
JoinReturns(p) == p = "exited"

(* if (joinable()) join(); mouse_thread_running_.store(false); and the     *)
(* return of stopMouseTracking.                                            *)
StopJoin ==
  /\ mainpc \in {"join", "dtor_join"}
  /\ JoinReturns(pc)
  /\ pc' = IF pc = "exited" THEN "none" ELSE pc
  /\ mouse_threads' = mouse_threads - 1
  /\ mouse_thread_running_' = FALSE
  /\ mainpc' = IF mainpc = "dtor_join" THEN "unregister" ELSE "idle"
  /\ last' = NoLast("join")
  /\ setModeCalls' = << >>
  /\ UNCHANGED << controlVars, mouse_thread_exit_, ipc_registered, calls, polls_after_exit >>

(* Autohide::~Autohide after stopMouseTracking(): m_ipc.unregisterForIPC.  *)
Unregister ==
  /\ mainpc = "unregister"
  /\ ipc_registered' = FALSE
  /\ mainpc' = "destroyed"
  /\ last' = NoLast("unregister")
  /\ setModeCalls' = << >>
  /\ UNCHANGED << controlVars, pc, mouse_thread_running_, mouse_thread_exit_, mouse_threads,
                  calls, polls_after_exit >>

(* The lifecycle is explored for one fast configuration, three samples (a  *)
(* failed query, the top of the monitor and its bottom) and one event.     *)
LifeConfig == Cfg(1, 50, 0, 0, 5, 1)

LifeSamples ==
  { s \in Samples :
      \/ s.kind = "query_failed"
      \/ /\ s.kind = "on_monitor"
         /\ MousePositions[s.reply].x = monitor_geometry.x + 30
         /\ MonitorMouseY(s) \in {0, 60} }

LifeEvents == { ev \in Events : ev[1] = "workspacev2" }

InitLife == Init /\ config_ = LifeConfig

(* The steps of the mouse-tracking thread. *)
PollerStep ==
  \/ ThreadEntry
  \/ \E s \in LifeSamples : CheckMousePosition(s)
  \/ \E over \in {0, check_interval_} : Sleep(over)

(* The steps with which the main thread leaves stopMouseTracking and the   *)
(* destructor once it has entered them.                                    *)
TeardownStep ==
  \/ StopJoin
  \/ Unregister

NextLife ==
  \/ PollerStep
  \/ TeardownStep
  \/ StartMouseTracking
  \/ \E dtor \in BOOLEAN : StopBegin(dtor)
  \/ \E ev \in LifeEvents : (dispatched + 1 < MaxPending /\ OnEvent(ev))
  \/ Update

SpecLife == InitLife /\ [][NextLife]_vars

(* The scheduler lets a runnable thread run: the poller takes its next     *)
(* step, and the main thread returns from a join that can return.          *)
SpecLifeFair == SpecLife /\ WF_vars(PollerStep) /\ WF_vars(TeardownStep)

(* C12: once the destructor has called unregisterForIPC, no thread of the  *)
(* poller is left that could run a poll cycle: the call comes only after   *)
(* the thread has been joined.                                             *)
C12_UnregisterAfterPollerStopped ==
  /\ (last.op = "unregister" => (pc = "none" /\ mouse_threads = 0))
  /\ (~ipc_registered => pc \notin {"entry", "check", "sleep"})

C12_Witness ==
  /\ last.op = "unregister"
  /\ mainpc = "destroyed"
  /\ ~ipc_registered
  /\ polls_after_exit = 1
  /\ clock > 0

(* C13: stopMouseTracking stores the exit flag before it joins; the poller *)
(* begins at most one more poll cycle after the store, and under fair      *)
(* scheduling the join returns: the thread is gone and the running flag is *)
(* false.                                                                  *)
C13_StopTerminates ==
  /\ [](mainpc \in {"join", "dtor_join"} => mouse_thread_exit_)
  /\ [](polls_after_exit <= 1)
  /\ (mainpc \in {"join", "dtor_join"}) ~>
       (mainpc \notin {"join", "dtor_join"} /\ ~mouse_thread_running_ /\ pc = "none")

C13_Witness ==
  /\ last.op = "join"
  /\ mainpc = "idle"
  /\ ~mouse_thread_running_
  /\ pc = "none"
  /\ polls_after_exit = 1

(* C14: startMouseTracking while the poller is running and                 *)
(* stopMouseTracking while it is stopped change nothing, and there is at   *)
(* most one poller thread at any time.                                     *)
C14_StartStopIdempotent ==
  [][ /\ (last'.op = "start" /\ mouse_thread_running_) =>
           UNCHANGED << controlVars, pc, mouse_thread_running_, mouse_thread_exit_,
                        mouse_threads, ipc_registered, mainpc >>
      /\ (last'.op = "stop" /\ ~mouse_thread_running_) =>
           UNCHANGED << controlVars, pc, mouse_thread_running_, mouse_thread_exit_,
                        mouse_threads, ipc_registered, mainpc >>
      /\ mouse_threads' <= 1 ]_vars

C14_Witness ==
  /\ last.op = "start"
  /\ last.kind = "was_running"
  /\ calls = 3
  /\ mouse_threads = 1
  /\ pc \in {"check", "sleep"}
  /\ clock > 0

----------------------------------------------------------------------------
(* The main loop runs: a dispatcher notification that is pending is        *)
(* eventually delivered.                                                   *)
MainLoopRuns == WF_vars(Update)

(* The controller of Spec for the fast configurations, with a main loop    *)
(* that runs.                                                              *)
SpecFair == InitThreads /\ [][Next]_vars /\ MainLoopRuns

(* C15: every step of the poller that ends a countdown and every forced    *)
(* event queues one request; setMode is called only by update() on the     *)
(* main thread, never in the step that raises the request; a request       *)
(* leaves the queue only by one run of update(), which makes one setMode   *)
(* call; and while a request is pending update() eventually runs.          *)
C15_RequestsExecutedOnceOnMain ==
  /\ [][ (setModeCalls' # << >> \/ barMode' # barMode) => last'.op = "update" ]_vars
  /\ [][ ( /\ last'.op = "check"
           /\ waybar_state_' # waybar_state_
           /\ waybar_state_' \in {VISIBLE, HIDDEN} ) => dispatched' = dispatched + 1 ]_vars
  /\ [][ ForcedEvent(last') => dispatched' = dispatched + 1 ]_vars
  /\ [][ dispatched' < dispatched =>
           (last'.op = "update" /\ dispatched' = dispatched - 1 /\ Len(setModeCalls') = 1) ]_vars
  /\ [][ last'.op = "update" => dispatched' = dispatched - 1 ]_vars
  /\ (dispatched > 0 ~> last.op = "update")

C15_Witness ==
  /\ last.op = "update"
  /\ dispatched = 0
  /\ waybar_state_ = HIDDEN
  /\ barMode = MODE_INVISIBLE
  /\ setModeCalls = << MODE_INVISIBLE >>

----------------------------------------------------------------------------
(* C16: waybar_state_ changes only by Hidden -> PendingVisible,            *)
(* PendingHidden -> PendingVisible, Visible -> PendingHidden,              *)
(* PendingVisible -> PendingHidden, PendingVisible -> Visible and          *)
(* PendingHidden -> Hidden, made by the poller, and by any state ->        *)
(* Visible, made by a forced-visible event.                                *)
ListedPollerTransitions ==
  { << HIDDEN, PENDING_VISIBLE >>, << PENDING_HIDDEN, PENDING_VISIBLE >>,
    << VISIBLE, PENDING_HIDDEN >>, << PENDING_VISIBLE, PENDING_HIDDEN >>,
    << PENDING_VISIBLE, VISIBLE >>, << PENDING_HIDDEN, HIDDEN >> }

C16_OnlyListedTransitions ==
  [][ waybar_state_' # waybar_state_ =>
        \/ (ForcedEvent(last') /\ waybar_state_' = VISIBLE)
        \/ ( /\ last'.op \in {"check", "zone_store", "expiry_store"}
             /\ << waybar_state_, waybar_state_' >> \in ListedPollerTransitions ) ]_vars

----------------------------------------------------------------------------
(* getMousePosition on its own: the reply is any string of at most         *)
(* MaxReplyLen characters over digits, a letter, the comma, the space and  *)
(* the two signs.                                                          *)
ReplyChars == {"1", "7", "a", ",", " ", "-", "+"}

Replies == UNION { [1..n -> ReplyChars] : n \in 0..MaxReplyLen }

InitParse ==
  /\ Constructed
  /\ CavaBackendUnused
  /\ HistoryOff
  /\ config_ = LifeConfig
  /\ ~last_trigger_was_show_
  /\ cursor_reply \in Replies
  /\ cursor_result = NoResult

(* One call of getMousePosition with m_ipc.getSocket1Reply("cursorpos")    *)
(* returning cursor_reply.                                                 *)
QueryCursor ==
  /\ ~cursor_result.done
  /\ cursor_result' = [ ok |-> getMousePosition(cursor_reply).ok,
                        x |-> getMousePosition(cursor_reply).x,
                        y |-> getMousePosition(cursor_reply).y,
                        done |-> TRUE ]
  /\ UNCHANGED << cfgVars, waybar_state_, timer_start_, last_trigger_was_show_, clock, pc, loc,
                  dispatched, barMode, setModeCalls, last, enteredAt, hrun, scen,
                  hide_cancelled, trace, ref, cached_monitor_, lifeVars, cursor_reply,
                  cavaVars >>

NextParse == QueryCursor

SpecParse == InitParse /\ [][NextParse]_vars

(* Vocabulary of the parsing claim, written without the parser. *)
AllDigits(t) == \A j \in 1..Len(t) : IsDigit(t[j])

(* "<int>": digits, with an optional minus sign in front. *)
IsIntLiteral(t) ==
  \/ Len(t) >= 1 /\ AllDigits(t)
  \/ Len(t) >= 2 /\ t[1] = "-" /\ AllDigits(SubSeq(t, 2, Len(t)))

RECURSIVE DecimalValue(_)
DecimalValue(d) ==
  IF Len(d) = 0 THEN 0
  ELSE DecimalValue(SubSeq(d, 1, Len(d) - 1)) * 10 + DigitValue(d[Len(d)])

LiteralValue(t) ==
  IF t[1] = "-" THEN 0 - DecimalValue(SubSeq(t, 2, Len(t))) ELSE DecimalValue(t)

FirstComma(r) == CHOOSE i \in 1..Len(r) : r[i] = "," /\ \A j \in 1..(i - 1) : r[j] # ","

HasComma(r) == \E i \in 1..Len(r) : r[i] = ","

LeftOfComma(r) == SubSeq(r, 1, FirstComma(r) - 1)

RightOfComma(r) == SubSeq(r, FirstComma(r) + 1, Len(r))

(* The text t begins, after any white space, with an integer literal:      *)
(* k is the index of its first digit, m the index of its last.             *)
LeadingLiteralAt(t, k, m) ==
  /\ k <= m
  /\ \A j \in k..m : IsDigit(t[j])
  /\ (m = Len(t) \/ ~IsDigit(t[m + 1]))
  /\ \/ \A j \in 1..(k - 1) : t[j] = " "
     \/ k >= 2 /\ t[k - 1] \in {"-", "+"} /\ \A j \in 1..(k - 2) : t[j] = " "

HasLeadingLiteral(t) == \E k \in 1..Len(t) : \E m \in k..Len(t) : LeadingLiteralAt(t, k, m)

LeadingLiteralValue(t) ==
  LET k == CHOOSE k \in 1..Len(t) : \E m \in k..Len(t) : LeadingLiteralAt(t, k, m)
      m == CHOOSE m \in k..Len(t) : LeadingLiteralAt(t, k, m)
      magnitude == DecimalValue(SubSeq(t, k, m))
  IN  IF k >= 2 /\ t[k - 1] = "-" THEN 0 - magnitude ELSE magnitude

(* C17 as stated: getMousePosition succeeds exactly for the replies        *)
(* "<int>,<int>", and then returns those two integers.                     *)
C17_SucceedsOnlyForIntCommaInt ==
  cursor_result.done =>
    LET r == cursor_reply
        wellFormed == HasComma(r) /\ IsIntLiteral(LeftOfComma(r)) /\ IsIntLiteral(RightOfComma(r))
    IN  /\ cursor_result.ok <=> wellFormed
        /\ cursor_result.ok =>
             /\ cursor_result.x = LiteralValue(LeftOfComma(r))
             /\ cursor_result.y = LiteralValue(RightOfComma(r))

(* C17, amended: getMousePosition fails for the empty reply, for a reply   *)
(* without a comma and for a reply in which the text before the first      *)
(* comma or the text after it does not begin, after optional white space,  *)
(* with a signed integer literal; otherwise it succeeds and returns the    *)
(* values of those two leading literals, whatever follows them.            *)
C17_SucceedsForLeadingIntegers ==
  cursor_result.done =>
    LET r == cursor_reply
        accepted == /\ HasComma(r)
                    /\ HasLeadingLiteral(LeftOfComma(r))
                    /\ HasLeadingLiteral(RightOfComma(r))
    IN  /\ cursor_result.ok <=> accepted
        /\ cursor_result.ok =>
             /\ cursor_result.x = LeadingLiteralValue(LeftOfComma(r))
             /\ cursor_result.y = LeadingLiteralValue(RightOfComma(r))

C17_Witness ==
  /\ cursor_result.done
  /\ cursor_reply = << "1", "a", ",", "7" >>
  /\ cursor_result.ok
  /\ cursor_result.x = 1
  /\ cursor_result.y = 7

----------------------------------------------------------------------------
(* onEvent under every raw event string of at most MaxEventLen tokens      *)
(* over the two event names, the delimiter and other text.                 *)
EventTokens == {"workspacev2", "focusedmonv2", "x", ">"}

EventStrings == UNION { [1..n -> EventTokens] : n \in 0..MaxEventLen }

(* The samples that take the controller through its four states. *)
EventSamples == { s \in LifeSamples : s.kind = "on_monitor" }

(* Two events are separated by at least one step of the poller or of the   *)
(* main thread.                                                            *)
NextEvents ==
  \/ \E ev \in EventStrings : (last.op # "onEvent" /\ OnEvent(ev))
  \/ \E s \in EventSamples : CheckMousePosition(s)
  \/ \E over \in {0, check_interval_} : Sleep(over)
  \/ Update

SpecEvents == InitLife /\ [][NextEvents]_vars

(* The text of ev before its first ">", the whole of ev when it has none.  *)
NameOf(ev) ==
  IF \E i \in 1..Len(ev) : ev[i] = ">"
    THEN LET i == CHOOSE i \in 1..Len(ev) : ev[i] = ">" /\ \A j \in 1..(i - 1) : ev[j] # ">"
         IN  [ j \in 1..(i - 1) |-> ev[j] ]
    ELSE ev

(* C18: onEvent applies the forced-visible transition (state Visible, one  *)
(* request) exactly when the text before the first ">" of the event, or    *)
(* the whole event when it has no ">", is workspacev2 or focusedmonv2; for *)
(* every other event the state is unchanged and nothing is dispatched.     *)
C18_ForcedIffNamedEvent ==
  [][ last'.op = "onEvent" =>
        IF NameOf(last'.ev) \in { << "workspacev2" >>, << "focusedmonv2" >> }
          THEN waybar_state_' = VISIBLE /\ dispatched' = dispatched + 1
          ELSE UNCHANGED << waybar_state_, dispatched, timer_start_, last_trigger_was_show_ >>
      ]_vars

C18_Witness ==
  /\ last.op = "onEvent"
  /\ last.ev = << "x", ">", "workspacev2" >>
  /\ last.state = PENDING_HIDDEN
  /\ waybar_state_ = PENDING_HIDDEN
  /\ dispatched = 0

----------------------------------------------------------------------------
C20_TopSampleKeepsShowTimer ==
  [][ /\ (TopSample(last') /\ waybar_state_ = VISIBLE) =>
           (waybar_state_' = VISIBLE /\ timer_start_' = timer_start_)
      /\ (TopSample(last') /\ waybar_state_ = PENDING_VISIBLE) =>
           /\ timer_start_' = timer_start_
           /\ timer_start_' = enteredAt
           /\ waybar_state_' = IF clock' - enteredAt >= ShowDelay
                                 THEN VISIBLE ELSE PENDING_VISIBLE ]_vars

C20_Witness ==
  /\ TopSample(last)
  /\ last.state = PENDING_VISIBLE
  /\ waybar_state_ = VISIBLE
  /\ delay_show_ = 20
  /\ clock - enteredAt = ShowDelay
  /\ timer_start_ = enteredAt

(***************************************************************************)
(* The show debounce, with the histories trace and ref recorded.  The      *)
(* handlers are those of Spec, the events are the forced-visible ones, and *)
(* the configurations are the ones whose poll                              *)
(* interval is shorter than the shortest effective delay, so that pending  *)
(* states last for several polls.                                          *)
(***************************************************************************)
InitDebounce ==
  /\ Constructed
  /\ CavaBackendUnused
  /\ HistoryOn
  /\ cursor_reply = << >>
  /\ cursor_result = NoResult
  /\ config_ \in FastConfigs

(* One sample of each kind the debounce tells apart: a failed query, a     *)
(* cursor left of the monitor, and cursors on the monitor at heights that  *)
(* fall in each zone of every configuration.                               *)
DebounceSamples ==
  { s \in Samples :
      \/ s.kind = "query_failed"
      \/ /\ s.kind = "off_monitor"
         /\ MousePositions[s.reply].x = monitor_geometry.x - 1
      \/ /\ s.kind = "on_monitor"
         /\ MousePositions[s.reply].x = monitor_geometry.x + 30
         /\ MonitorMouseY(s) \in {0, 1, 2, 60} }

NextDebounce ==
  \/ \E s \in DebounceSamples : CheckMousePosition(s)
  \/ \E over \in {0, check_interval_} : Sleep(over)
  \/ \E ev \in LifeEvents : OnEvent(ev)
  \/ Update

SpecDebounce == InitDebounce /\ [][NextDebounce]_vars

MiddleSample(l) == PolledOn(l) /\ ~TopSample(l) /\ ~BottomSample(l)

(* C21: a sample on this monitor outside the top zone clears the show      *)
(* debounce; a middle-zone sample leaves the timer alone and changes the   *)
(* state only by timer expiry, so it leaves Visible and Hidden as they     *)
(* are; and from Hidden with the debounce clear, the samples top, middle,  *)
(* top leave the state Hidden.                                             *)
C21_MiddleResetsDebounce ==
  [][ /\ (MiddleSample(last') \/ BottomSample(last')) => ~last_trigger_was_show_'
      /\ MiddleSample(last') =>
           /\ timer_start_' = timer_start_
           /\ waybar_state_ \in {VISIBLE, HIDDEN} => waybar_state_' = waybar_state_
           /\ waybar_state_' # waybar_state_ =>
                \/ /\ waybar_state_ = PENDING_VISIBLE
                   /\ waybar_state_' = VISIBLE
                   /\ clock' - timer_start_ >= ShowDelay
                \/ /\ waybar_state_ = PENDING_HIDDEN
                   /\ waybar_state_' = HIDDEN
                   /\ clock' - timer_start_ >= HideDelay
      /\ trace' = << "top", "middle", "top" >> => waybar_state_' = HIDDEN ]_vars

C21_Witness ==
  /\ trace = << "top", "middle", "top" >>
  /\ TopSample(last)
  /\ last.state = HIDDEN
  /\ waybar_state_ = HIDDEN
  /\ last_trigger_was_show_

(* C22: onEvent assigns neither the show debounce nor the timer, and it    *)
(* changes the state only by a forced-visible event setting it Visible;    *)
(* a debounce that was set before the event is still set after it.         *)
C22_EventWritesOnlyState ==
  [][ last'.op = "onEvent" =>
        /\ last_trigger_was_show_' = last_trigger_was_show_
        /\ timer_start_' = timer_start_
        /\ waybar_state_' = IF ForcedEvent(last') THEN VISIBLE ELSE waybar_state_ ]_vars

C22_Witness ==
  /\ ForcedEvent(last)
  /\ last.state = HIDDEN
  /\ waybar_state_ = VISIBLE
  /\ last_trigger_was_show_
  /\ timer_start_ < clock

(* A sample on this monitor that makes a zone-driven transition from the   *)
(* state st with the debounce flag.                                        *)
ZoneDriven(l, st, flag) ==
  \/ TopSample(l) /\ st \in {HIDDEN, PENDING_HIDDEN} /\ flag
  \/ BottomSample(l) /\ st \in {VISIBLE, PENDING_VISIBLE}

(* C23: a sample on this monitor that makes no zone-driven transition,     *)
(* whatever its zone, takes PendingHidden to Hidden and PendingVisible to  *)
(* Visible and notifies the main thread once exactly when the time since   *)
(* timer_start_ has reached the effective delay; before that it leaves the *)
(* pending state and notifies nobody.                                      *)
C23_ExpiryOnEverySample ==
  [][ (PolledOn(last') /\ ~ZoneDriven(last', waybar_state_, last_trigger_was_show_)) =>
        /\ waybar_state_ = PENDING_HIDDEN =>
             IF clock' - timer_start_ >= HideDelay
               THEN waybar_state_' = HIDDEN /\ dispatched' = dispatched + 1
               ELSE waybar_state_' = PENDING_HIDDEN /\ dispatched' = dispatched
        /\ waybar_state_ = PENDING_VISIBLE =>
             IF clock' - timer_start_ >= ShowDelay
               THEN waybar_state_' = VISIBLE /\ dispatched' = dispatched + 1
               ELSE waybar_state_' = PENDING_VISIBLE /\ dispatched' = dispatched ]_vars

C23_Witness ==
  /\ MiddleSample(last)
  /\ last.state = PENDING_HIDDEN
  /\ waybar_state_ = HIDDEN
  /\ dispatched >= 1
  /\ delay_hide_ = 15
  /\ clock - timer_start_ = HideDelay

(* C25: a sample that checkMousePosition skips (the cursor query failed,   *)
(* or the cursor is off this monitor) between two top-zone samples does    *)
(* not clear the show debounce: from Hidden with the debounce clear, the   *)
(* samples top, skipped, top end in PendingVisible.                        *)
C25_SkippedSampleKeepsRun ==
  \A skipped \in {"query_failed", "off_monitor"} :
    trace = << "top", skipped, "top" >> => waybar_state_ = PENDING_VISIBLE

C25_Witness ==
  /\ trace = << "top", "off_monitor", "top" >>
  /\ TopSample(last)
  /\ last.state = HIDDEN
  /\ waybar_state_ = PENDING_VISIBLE
  /\ timer_start_ = clock

(* C26: a step dispatches at most one request, and only a forced-visible   *)
(* event setting the state Visible or a poll cycle whose expiry check      *)
(* takes a pending state to Visible or Hidden; a poll cycle that ends in a *)
(* pending state or in the state it started from dispatches nothing.       *)
C26_DispatchOnlyOnSettledState ==
  [][ /\ dispatched' > dispatched =>
           /\ dispatched' = dispatched + 1
           /\ \/ ForcedEvent(last') /\ waybar_state_' = VISIBLE
              \/ /\ PolledOn(last')
                 /\ waybar_state_' \in {VISIBLE, HIDDEN}
                 /\ waybar_state_' # waybar_state_
      /\ (/\ last'.op = "check"
          /\ \/ waybar_state_' \in {PENDING_VISIBLE, PENDING_HIDDEN}
             \/ waybar_state_' = waybar_state_) => dispatched' = dispatched ]_vars

C26_Witness ==
  /\ TopSample(last)
  /\ last.state = HIDDEN
  /\ waybar_state_ = PENDING_VISIBLE
  /\ timer_start_ = clock
  /\ dispatched = 0

(* C27: while mouse_thread_running_ is false, which is from the return of  *)
(* stopMouseTracking to the next startMouseTracking, there is no poller    *)
(* thread and no step is a poll cycle or a sleep of one: the timer and the *)
(* show debounce keep their values, and the state changes and a request is *)
(* dispatched only by onEvent.                                             *)
C27_NoPollAfterStop ==
  [][ ~mouse_thread_running_ =>
        /\ pc = "none"
        /\ mouse_threads = 0
        /\ last'.op \notin {"entry", "check", "sleep"}
        /\ timer_start_' = timer_start_
        /\ last_trigger_was_show_' = last_trigger_was_show_
        /\ waybar_state_' # waybar_state_ => last'.op = "onEvent"
        /\ dispatched' > dispatched => last'.op = "onEvent" ]_vars

C27_Witness ==
  /\ ForcedEvent(last)
  /\ ~mouse_thread_running_
  /\ mainpc = "idle"
  /\ pc = "none"
  /\ polls_after_exit = 1
  /\ last.state = PENDING_HIDDEN
  /\ waybar_state_ = VISIBLE

(* C28: run on the same samples and events from construction, the module   *)
(* with its boolean debounce and the reference machine with a trigger      *)
(* counter that must reach two are always in the same state with the same  *)
(* timer start; and wherever a show can be triggered, the flag is set      *)
(* exactly when the counter is at least one.                               *)
C28_FlagEqualsCounterOfTwo ==
  /\ ref.state = waybar_state_
  /\ ref.timer = timer_start_
  /\ waybar_state_ \in {HIDDEN, PENDING_HIDDEN} => (last_trigger_was_show_ <=> ref.counter >= 1)

C28_Witness ==
  /\ TopSample(last)
  /\ last.state = PENDING_HIDDEN
  /\ waybar_state_ = PENDING_VISIBLE
  /\ ref.state = PENDING_VISIBLE
  /\ ref.counter = 2
  /\ ref.timer = clock
  /\ clock > 0

----------------------------------------------------------------------------
(***************************************************************************)
(* The cava backend: the delay of its update thread and its silence        *)
(* signal.  doUpdate() runs on the update thread (thread_), Update() and   *)
(* doPauseResume() on the main thread.  doPauseResume() holds              *)
(* audio_data_.lock; doUpdate() changes frame_time_milsec_ and             *)
(* suspend_silence_delay_ without it, so a call from the main thread can   *)
(* run between the test and the body of the update thread's                *)
(* upThreadDelay or downThreadDelay.                                       *)
(***************************************************************************)

(* Every variable of the Autohide module. *)
autohideVars ==
  << cfgVars, waybar_state_, timer_start_, last_trigger_was_show_, clock, pc, loc, dispatched,
     barMode, setModeCalls, last, enteredAt, hrun, scen, hide_cancelled, trace, ref,
     cached_monitor_, lifeVars, parseVars >>

(* The frame rates and sleep timers (seconds, 0 = off) the backend is      *)
(* given.                                                                  *)
CavaFramerates == {2, 4}
CavaSleepTimers == {0, 1, 2}

InitCava ==
  /\ Constructed
  /\ HistoryOff
  /\ config_ = LifeConfig
  /\ ~last_trigger_was_show_
  /\ cursor_reply = << >>
  /\ cursor_result = NoResult
  /\ \E framerate \in CavaFramerates, sleep_timer \in CavaSleepTimers, prev \in BOOLEAN :
       CavaBackendConstructedWith([framerate |-> framerate, sleep_timer |-> sleep_timer], prev)

(* The pair (delay, delta) the two static functions work on. *)
ThreadDelay == [delay |-> frame_time_milsec_, delta |-> suspend_silence_delay_]

(* upThreadDelay: the test, the body, and the whole function. *)
upThreadDelayTest(delta) == delta = 0
upThreadDelayBody(d) ==
  [delay |-> d.delay + MsPerSecond * (d.delta + 1), delta |-> d.delta + 1]
upThreadDelay(d) == IF upThreadDelayTest(d.delta) THEN upThreadDelayBody(d) ELSE d

(* downThreadDelay: the test, the body, and the whole function. *)
downThreadDelayTest(delta) == delta > 0
downThreadDelayBody(d) ==
  [delay |-> d.delay - MsPerSecond * d.delta, delta |-> d.delta - 1]
downThreadDelay(d) == IF downThreadDelayTest(d.delta) THEN downThreadDelayBody(d) ELSE d

(* (int)(std::chrono::milliseconds(prm_.sleep_timer * 1s) / frame_time_milsec_) *)
SleepThreshold == (prm_.sleep_timer * MsPerSecond) \div frame_time_milsec_

(* Lines 309-318 of doUpdate for isSilence() = quiet: the values of        *)
(* silence_ and sleep_counter_ they leave.                                 *)
DetectSilence(quiet) ==
  LET counter == IF ~quiet THEN 0 ELSE sleep_counter_
      waiting == quiet /\ prm_.sleep_timer # 0 /\ counter <= SleepThreshold
  IN  [silence |-> quiet /\ ~waiting,
       counter |-> IF waiting THEN counter + 1 ELSE counter]

(* The branch of the if at line 320. *)
UpdateBranch(silence) == IF ~silence \/ prm_.sleep_timer = 0 THEN "down" ELSE "up"

(* doUpdate() on the update thread, up to the test inside upThreadDelay or *)
(* downThreadDelay; a suspended backend returns at once.                   *)
DoUpdateBegin(quiet) ==
  /\ thread_pc = "idle"
  /\ IF suspendFlag
       THEN /\ cava_last' = [NoCavaLast EXCEPT !.op = "doUpdate", !.delay = frame_time_milsec_]
            /\ UNCHANGED << silence_, sleep_counter_, thread_pc, thread_loc >>
       ELSE LET det == DetectSilence(quiet)
                branch == UpdateBranch(det.silence)
            IN  /\ silence_' = det.silence
                /\ sleep_counter_' = det.counter
                /\ thread_loc' = [branch |-> branch,
                                  test |-> IF branch = "down"
                                             THEN downThreadDelayTest(suspend_silence_delay_)
                                             ELSE upThreadDelayTest(suspend_silence_delay_)]
                /\ thread_pc' = "delay"
                /\ cava_last' = [NoCavaLast EXCEPT !.op = "begin", !.delay = frame_time_milsec_]
  /\ UNCHANGED << prm_, suspendFlag, silence_prev_, frame_time_milsec_, suspend_silence_delay_ >>
  /\ UNCHANGED autohideVars

(* The rest of doUpdate() on the update thread: the body of the delay      *)
(* function if its test passed, execute() with re_paint_ = repaint, the    *)
(* signal, and silence_prev_ = silence_.                                   *)
DoUpdateEnd(repaint) ==
  /\ thread_pc = "delay"
  /\ LET d == IF ~thread_loc.test THEN ThreadDelay
              ELSE IF thread_loc.branch = "down" THEN downThreadDelayBody(ThreadDelay)
              ELSE upThreadDelayBody(ThreadDelay)
     IN  /\ frame_time_milsec_' = d.delay
         /\ suspend_silence_delay_' = d.delta
  /\ cava_last' = [op |-> "doUpdate", force |-> FALSE,
                   silence_emitted |-> (thread_loc.branch = "up" /\ silence_ # silence_prev_),
                   update_emitted |-> (thread_loc.branch = "down" /\ repaint),
                   delay |-> frame_time_milsec_]
  /\ silence_prev_' = silence_
  /\ thread_pc' = "idle"
  /\ thread_loc' = NoThreadLoc
  /\ UNCHANGED << prm_, suspendFlag, silence_, sleep_counter_ >>
  /\ UNCHANGED autohideVars

(* CavaBackend::Update, doUpdate(true), on the main thread. *)
ForcedUpdate(quiet) ==
  /\ LET det == DetectSilence(quiet)
         branch == UpdateBranch(det.silence)
         d == IF branch = "down" THEN downThreadDelay(ThreadDelay) ELSE upThreadDelay(ThreadDelay)
     IN  /\ silence_' = det.silence
         /\ sleep_counter_' = det.counter
         /\ frame_time_milsec_' = d.delay
         /\ suspend_silence_delay_' = d.delta
         /\ silence_prev_' = det.silence
         /\ cava_last' = [op |-> "doUpdate", force |-> TRUE,
                          silence_emitted |-> (branch = "up"),
                          update_emitted |-> (branch = "down"),
                          delay |-> frame_time_milsec_]
  /\ UNCHANGED << prm_, suspendFlag, thread_pc, thread_loc >>
  /\ UNCHANGED autohideVars

(* CavaBackend::doPauseResume, on the main thread. *)
DoPauseResume ==
  /\ suspendFlag' = ~suspendFlag
  /\ LET d == IF suspendFlag THEN downThreadDelay(ThreadDelay) ELSE upThreadDelay(ThreadDelay)
     IN  /\ frame_time_milsec_' = d.delay
         /\ suspend_silence_delay_' = d.delta
  /\ cava_last' = [NoCavaLast EXCEPT !.op = IF suspendFlag THEN "resume" ELSE "pause",
                                     !.delay = frame_time_milsec_]
  /\ UNCHANGED << prm_, silence_, silence_prev_, sleep_counter_, thread_pc, thread_loc >>
  /\ UNCHANGED autohideVars

NextCava ==
  \/ \E quiet \in BOOLEAN : DoUpdateBegin(quiet)
  \/ \E repaint \in BOOLEAN : DoUpdateEnd(repaint)
  \/ \E quiet \in BOOLEAN : ForcedUpdate(quiet)
  \/ DoPauseResume

SpecCava == InitCava /\ [][NextCava]_vars

(* C24: a doUpdate() cycle of the update thread emits the silence signal   *)
(* exactly when the silence state it stores in silence_prev_ differs from  *)
(* the one stored by the cycle before, on entering silence and on leaving  *)
(* it alike.                                                               *)
C24_SilenceSignalOnEveryChange ==
  [][ (cava_last'.op = "doUpdate" /\ ~cava_last'.force) =>
        (cava_last'.silence_emitted <=> silence_prev_' # silence_prev_) ]_vars

(* C29: after every backend call suspend_silence_delay_ is 0 or 1 second   *)
(* and frame_time_milsec_ is the base frame time plus that delay, so it is *)
(* never below the base frame time; and a resume that directly follows a   *)
(* pause leaves frame_time_milsec_ at the value it had before the pause.   *)
C29_DelayIsBasePlusSilenceDelay ==
  [][ /\ suspend_silence_delay_' \in {0, 1}
      /\ frame_time_milsec_' =
           BaseFrameTime(prm_.framerate) + MsPerSecond * suspend_silence_delay_'
      /\ frame_time_milsec_' >= BaseFrameTime(prm_.framerate)
      /\ (cava_last.op = "pause" /\ cava_last'.op = "resume") =>
           frame_time_milsec_' = cava_last.delay ]_vars

====
